---- MODULE Spec2Model ----
(***************************************************************************)
(* Model of the Raumschiff demo (src/src/main.cpp, the screen-state        *)
(* variant; src/main.cpp is the baseline variant and shares the startup    *)
(* and the mesh flattening).                                                *)
(*                                                                         *)
(* Numbers.  Floats are modelled by integers:                              *)
(*   - lengths are counted in units of movementSpeed (0.05f), so one held  *)
(*     arrow key moves the model by 1;                                     *)
(*   - time is counted in ticks of 0.025 s, so charDisplayInterval (0.05f) *)
(*     is 2 ticks;                                                         *)
(*   - angles are counted in quarter turns, so glm::radians(90.0f) is 1.   *)
(* Float rounding is not modelled.                                         *)
(* C++ containers are 0-based, TLA+ sequences 1-based: a C++ a[i] is       *)
(* written a[i + 1] here.                                                  *)
(***************************************************************************)
EXTENDS Integers, Sequences, FiniteSets, TLC

VARIABLES
    pc,                 \* position of main()
    exitCode,           \* <<value returned by main()>>; <<>> while it has not returned
    failure,            \* which fatal startup check failed ("none" if none)
    loopEntered,        \* the body of the frame loop has been entered
    asset,              \* what tinyobj::LoadObj produced: ret, shapes, attrib
    s, f, v,            \* loop counters of the vertex data preparation
    index_offset,
    vertices, indices,  \* std::vector<float> vertices, std::vector<unsigned> indices
    VBO, EBO,           \* device buffers of the mesh
    fontLoaded,         \* FT_New_Face succeeded
    windowShouldClose,  \* the window's close flag
    keys,               \* key state cached by GLFW, as glfwGetKey reads it
    glfwTime,           \* value of the GLFW timer (startup takes less than a tick)
    gameState,
    modelPosition, rotationY,
    loreLoaded, loreText, charIndex, timeAccumulator,
    loreElapsed,        \* total timer time consumed by the Lore screen
    uModel, uView,      \* matrices last handed to the lit-mesh shader
    axesVBO, quadVBO,   \* device buffers of the axes and of the screen quad
    Characters,         \* std::map<GLchar, Character>: the glyph cache
    glCalls,            \* device calls issued by the frame rendered last
    released            \* glDelete... calls per vertex-array / buffer object

vars == <<pc, exitCode, failure, loopEntered, asset, s, f, v, index_offset,
          vertices, indices, VBO, EBO, fontLoaded, windowShouldClose, keys,
          glfwTime, gameState, modelPosition, rotationY, loreLoaded, loreText,
          charIndex, timeAccumulator, loreElapsed, uModel, uView, axesVBO,
          quadVBO, Characters, glCalls, released>>

(***************************************************************************)
(* Bounds of the model.                                                    *)
(***************************************************************************)
MaxShapes    == 2     \* shapes in an imported asset
MaxFaces     == 2     \* faces per shape
NumPositions == 2     \* source positions in attrib.vertices
NumNormals   == 2     \* source normals in attrib.normals
MaxKeysHeld  == 2     \* keys held down at the same time
MaxMove      == 1     \* |modelPosition.x|, |modelPosition.z|
MaxDt        == 2     \* timer ticks that pass during one frame
MaxElapsed   == 4     \* timer ticks in a run
MaxLoreLen   == 2     \* characters in the lore text file

(***************************************************************************)
(* Program constants.                                                      *)
(***************************************************************************)
movementSpeed       == 1      \* 0.05f, the unit of length
charDisplayInterval == 2      \* 0.05f seconds, in ticks of 0.025 s
FaceCorners         == 3      \* LoadObj is called with triangulate = true

Keys == {"ESC", "UP", "DOWN", "LEFT", "RIGHT", "ENTER"}
KeySets == {K \in SUBSET Keys : Cardinality(K) <= MaxKeysHeld}

GameState == {"Start_Screen", "Lore_Screen", "Game_Screen", "End_screen"}

Min(a, b) == IF a <= b THEN a ELSE b

(***************************************************************************)
(* Imported assets: what tinyobj::LoadObj can leave in attrib and shapes.  *)
(* Source positions and normals are distinct numbers, so that a vertex     *)
(* record shows which source entry it was copied from.                     *)
(***************************************************************************)
MkAttrib ==
    [vertices |-> [i \in 1..(3 * NumPositions) |-> 100 + i],
     normals  |-> [i \in 1..(3 * NumNormals)  |-> 200 + i]]

NormalModes == {"none", "all", "mixed"}

MkIndex(k, mode) ==
    [vertex_index |-> k % NumPositions,
     normal_index |-> CASE mode = "none"  -> -1
                        [] mode = "all"   -> k % NumNormals
                        [] mode = "mixed" -> (k % (NumNormals + 1)) - 1]

MkShape(nf, mode, base) ==
    [num_face_vertices |-> [i \in 1..nf |-> FaceCorners],
     indices |-> [k \in 1..(FaceCorners * nf) |-> MkIndex(base + k, mode)]]

\* every asset of at most maxShapes shapes of at most maxFaces faces each,
\* with LoadObj reporting success or failure
Assets(maxShapes, maxFaces, modes) ==
    UNION { { [ret    |-> r,
               shapes |-> [i \in 1..n |-> MkShape(fc[i], mode, i)],
               attrib |-> MkAttrib]
              : fc \in [1..n -> 0..maxFaces], mode \in modes, r \in BOOLEAN }
            : n \in 0..maxShapes }

\* the assets of the mesh specification
AllAssets == Assets(MaxShapes, MaxFaces, NormalModes)

\* the whole program is run on a single triangle (or a failed import of it)
MainAssets ==
    {a \in Assets(1, 1, {"mixed"}) :
        Len(a.shapes) = 1 /\ Len(a.shapes[1].num_face_vertices) = 1}

NoAsset == [ret |-> FALSE, shapes |-> <<>>, attrib |-> [vertices |-> <<>>, normals |-> <<>>]]

(***************************************************************************)
(* Vertex data preparation (src/src/main.cpp:274-311).                     *)
(***************************************************************************)
\* the six floats appended for the corner idx
CornerRecord_StrictNormalTest(attrib, idx) ==
    LET vx == attrib.vertices[3 * idx.vertex_index + 0 + 1]
        vy == attrib.vertices[3 * idx.vertex_index + 1 + 1]
        vz == attrib.vertices[3 * idx.vertex_index + 2 + 1]
        hasNormal == idx.normal_index > 0
        nx == IF hasNormal THEN attrib.normals[3 * idx.normal_index + 0 + 1] ELSE 0
        ny == IF hasNormal THEN attrib.normals[3 * idx.normal_index + 1 + 1] ELSE 0
        nz == IF hasNormal THEN attrib.normals[3 * idx.normal_index + 2 + 1] ELSE 0
    IN  <<vx, vy, vz, nx, ny, nz>>

CornerRecord(attrib, idx) ==
    LET vx == attrib.vertices[3 * idx.vertex_index + 0 + 1]
        vy == attrib.vertices[3 * idx.vertex_index + 1 + 1]
        vz == attrib.vertices[3 * idx.vertex_index + 2 + 1]
        hasNormal == idx.normal_index >= 0
        nx == IF hasNormal THEN attrib.normals[3 * idx.normal_index + 0 + 1] ELSE 0
        ny == IF hasNormal THEN attrib.normals[3 * idx.normal_index + 1 + 1] ELSE 0
        nz == IF hasNormal THEN attrib.normals[3 * idx.normal_index + 2 + 1] ELSE 0
    IN  <<vx, vy, vz, nx, ny, nz>>

\* indices.push_back(indices.size()): the size_t is narrowed to unsigned int,
\* which changes nothing below 2^32 entries (more than TLC's integers hold)
NextIndex_OneBased(ind) == Len(ind) + 1

NextIndex(ind) == Len(ind)

(***************************************************************************)
(* 4x4 matrices as glm composes them: glm::translate(m, v) and             *)
(* glm::rotate(m, a, axis) multiply m on the right.  M[r][c] is row r,     *)
(* column c.  Angles are quarter turns, so sine and cosine are exact.      *)
(***************************************************************************)
Idx4 == 1..4

Identity4 == [r \in Idx4 |-> [c \in Idx4 |-> IF r = c THEN 1 ELSE 0]]

Zero4 == [r \in Idx4 |-> [c \in Idx4 |-> 0]]

MatMul(A, B) ==
    [r \in Idx4 |-> [c \in Idx4 |->
        A[r][1] * B[1][c] + A[r][2] * B[2][c] + A[r][3] * B[3][c] + A[r][4] * B[4][c]]]

Cos4(q) == CASE q % 4 = 0 -> 1 [] q % 4 = 1 -> 0  [] q % 4 = 2 -> -1 [] q % 4 = 3 -> 0
Sin4(q) == CASE q % 4 = 0 -> 0 [] q % 4 = 1 -> 1  [] q % 4 = 2 -> 0  [] q % 4 = 3 -> -1

\* glm::translate(m, v)
translate(m, vec) ==
    MatMul(m, << <<1, 0, 0, vec[1]>>,
                 <<0, 1, 0, vec[2]>>,
                 <<0, 0, 1, vec[3]>>,
                 <<0, 0, 0, 1>> >>)

\* glm::rotate(m, q quarter turns, axis), for the two axes the program uses
rotate(m, q, axis) ==
    LET c  == Cos4(q)
        sn == Sin4(q)
    IN  CASE axis = <<1, 0, 0>> ->
               MatMul(m, << <<1, 0, 0, 0>>,
                            <<0, c, -sn, 0>>,
                            <<0, sn, c, 0>>,
                            <<0, 0, 0, 1>> >>)
          [] axis = <<0, 0, 1>> ->
               MatMul(m, << <<c, -sn, 0, 0>>,
                            <<sn, c, 0, 0>>,
                            <<0, 0, 1, 0>>,
                            <<0, 0, 0, 1>> >>)

\* where the matrix m places the point p
TransformPoint(m, p) ==
    [i \in 1..3 |-> m[i][1] * p[1] + m[i][2] * p[2] + m[i][3] * p[3] + m[i][4]]

Vec3(p) == <<p.x, p.y, p.z>>

\* the camera offset (30, 30, 30), in units of movementSpeed
cameraOffset == <<600, 600, 600>>

\* the model matrix of a Game frame
ModelMatrix(pos, yaw) ==
    LET m0 == Identity4
        m1 == rotate(m0, 1, <<1, 0, 0>>)
        m2 == translate(m1, Vec3(pos))
        m3 == rotate(m2, yaw, <<0, 0, 1>>)
    IN  m3

\* the arguments of glm::lookAt in a Game frame
ViewArgs(pos) ==
    [eye |-> cameraOffset, center |-> Vec3(pos), up |-> <<0, 0, 1>>]

NoView == [eye |-> <<0, 0, 0>>, center |-> <<0, 0, 0>>, up |-> <<0, 0, 0>>]

(***************************************************************************)
(* processInput: the arrow keys.                                           *)
(***************************************************************************)
processInputMove_DownAlsoSubtracts(pos, ks) ==
    LET p1 == IF "UP"    \in ks THEN [pos EXCEPT !.x = @ - movementSpeed] ELSE pos
        p2 == IF "DOWN"  \in ks THEN [p1  EXCEPT !.x = @ - movementSpeed] ELSE p1
        p3 == IF "LEFT"  \in ks THEN [p2  EXCEPT !.z = @ + movementSpeed] ELSE p2
        p4 == IF "RIGHT" \in ks THEN [p3  EXCEPT !.z = @ - movementSpeed] ELSE p3
    IN  p4

processInputMove_LeftMovesY(pos, ks) ==
    LET p1 == IF "UP"    \in ks THEN [pos EXCEPT !.x = @ - movementSpeed] ELSE pos
        p2 == IF "DOWN"  \in ks THEN [p1  EXCEPT !.x = @ + movementSpeed] ELSE p1
        p3 == IF "LEFT"  \in ks THEN [p2  EXCEPT !.y = @ + movementSpeed] ELSE p2
        p4 == IF "RIGHT" \in ks THEN [p3  EXCEPT !.z = @ - movementSpeed] ELSE p3
    IN  p4

processInputMove(pos, ks) ==
    LET p1 == IF "UP"    \in ks THEN [pos EXCEPT !.x = @ - movementSpeed] ELSE pos
        p2 == IF "DOWN"  \in ks THEN [p1  EXCEPT !.x = @ + movementSpeed] ELSE p1
        p3 == IF "LEFT"  \in ks THEN [p2  EXCEPT !.z = @ + movementSpeed] ELSE p2
        p4 == IF "RIGHT" \in ks THEN [p3  EXCEPT !.z = @ - movementSpeed] ELSE p3
    IN  p4

(***************************************************************************)
(* The reveal counter of the Lore screen, after the timer was added to the *)
(* accumulator.                                                            *)
(***************************************************************************)
RevealStep_NoLengthTest(acc, idx, len) ==
    IF acc >= charDisplayInterval
    THEN [charIndex |-> idx + 1, timeAccumulator |-> 0]
    ELSE [charIndex |-> idx,     timeAccumulator |-> acc]

RevealStep_KeepsRemainder(acc, idx, len) ==
    IF acc >= charDisplayInterval /\ idx < len
    THEN [charIndex |-> idx + 1, timeAccumulator |-> acc - charDisplayInterval]
    ELSE [charIndex |-> idx,     timeAccumulator |-> acc]

RevealStep(acc, idx, len) ==
    IF acc >= charDisplayInterval /\ idx < len
    THEN [charIndex |-> idx + 1, timeAccumulator |-> 0]
    ELSE [charIndex |-> idx,     timeAccumulator |-> acc]

\* the lore text file: missing, or a text of up to MaxLoreLen characters
LoreOfLen(n) == [i \in 1..n |-> IF i % 2 = 1 THEN "R" ELSE "a"]

LoreFiles ==
    {[open |-> FALSE, text |-> <<>>]} \cup
    {[open |-> TRUE, text |-> LoreOfLen(n)] : n \in 0..MaxLoreLen}

(***************************************************************************)
(* The glyph cache and the text drawing of the Lore screen.                *)
(***************************************************************************)
\* the characters the lore text is made of
Chars == {"R", "a"}

\* the character whose glyph FT_Load_Char may fail to load
FailingChar == "a"

\* the cache after the loop over the first 128 characters: a glyph that fails
\* to load is skipped; without a face none is loaded
GlyphCaches(faceLoaded) ==
    IF faceLoaded THEN {[c \in G |-> "rasterized"] : G \in {Chars, Chars \ {FailingChar}}}
                  ELSE {[c \in {} |-> "rasterized"]}

\* Character ch = Characters[*c]: std::map::operator[] inserts a
\* value-initialized Character for a key that is not in the map
RECURSIVE LookUpAll(_, _, _)
LookUpAll(cache, text, n) ==
    IF n = 0 THEN cache
    ELSE LET before == LookUpAll(cache, text, n - 1)
             c      == text[n]
         IN  IF c \in DOMAIN before
             THEN before
             ELSE [d \in DOMAIN before \cup {c} |->
                      IF d = c THEN "value-initialized" ELSE before[d]]

\* the contents of the screen-quad buffer
QuadVertices == [kind |-> "quadVertices", ch |-> "", at |-> 0]

GlyphQuad(c, i) == [kind |-> "glyph", ch |-> c, at |-> i]

Call(fn, arg) == [fn |-> fn, arg |-> arg]

\* the device calls of the glyph loop for the first n characters of text
RECURSIVE GlyphCalls(_, _)
GlyphCalls(text, n) ==
    IF n = 0 THEN <<>>
    ELSE GlyphCalls(text, n - 1) \o
         << Call("glBufferSubData", "quadVBO"), Call("glDrawArrays", "GL_TRIANGLES") >>

\* the program, vertex-array, buffer-write and draw calls of a Lore frame
LoreCalls_OneWrite(text) ==
    << Call("glUseProgram", "postProcessingShaderProgram"),
       Call("glBindVertexArray", "quadVAO"),
       Call("glBufferSubData", "quadVBO") >>
    \o [i \in 1..Len(text) |-> Call("glDrawArrays", "GL_TRIANGLES")]
    \o << Call("glBindVertexArray", "0") >>

LoreCalls_NoUseProgram(text) ==
    << Call("glBindVertexArray", "quadVAO") >>
    \o GlyphCalls(text, Len(text))
    \o << Call("glBindVertexArray", "0") >>

LoreCalls(text) ==
    << Call("glUseProgram", "postProcessingShaderProgram"),
       Call("glBindVertexArray", "quadVAO") >>
    \o GlyphCalls(text, Len(text))
    \o << Call("glBindVertexArray", "0") >>

\* the program, vertex-array and draw calls of a Game frame
GameCalls ==
    << Call("glUseProgram", "axesShaderProgram"),
       Call("glBindVertexArray", "axesVAO"),
       Call("glDrawArrays", "GL_LINES"),
       Call("glUseProgram", "shaderProgram"),
       Call("glBindVertexArray", "VAO"),
       Call("glDrawElements", "GL_TRIANGLES") >>

(***************************************************************************)
(* Vertex-array and buffer objects, and their release.                     *)
(***************************************************************************)
Objects == {"VAO", "VBO", "EBO", "axesVAO", "axesVBO", "quadVAO", "quadVBO"}

\* glDeleteVertexArrays / glDeleteBuffers after the frame loop
DeleteObjects_VBOTwice(rel) ==
    [o \in Objects |->
        IF o \in {"VAO", "axesVAO", "axesVBO"} THEN rel[o] + 1
        ELSE IF o = "VBO" THEN rel[o] + 2
        ELSE rel[o]]

DeleteObjects(rel) ==
    [o \in Objects |->
        IF o \in {"VAO", "VBO", "EBO", "axesVAO", "axesVBO"} THEN rel[o] + 1 ELSE rel[o]]

\* handleInput, as a function of the screen state and the key state
handleInput(gs, ks) == IF "ENTER" \in ks THEN "Game_Screen" ELSE gs

(***************************************************************************)
(* The program.                                                            *)
(***************************************************************************)
meshVars      == <<asset, s, f, v, index_offset, vertices, indices>>
deviceVars    == <<VBO, EBO, uModel, uView>>
transformVars == <<modelPosition, rotationY>>
loreVars      == <<loreLoaded, loreText, charIndex, timeAccumulator, loreElapsed>>
textVars      == <<Characters, quadVBO, glCalls>>
ownedVars     == <<axesVBO, released>>

NoBuffer == [created |-> FALSE, data |-> <<>>]

\* GameState gameState = Lore_Screen;
InitialGameState_End == "End_screen"

InitialGameState == "Lore_Screen"

InitAt(at, gs, ks) ==
    /\ pc = at
    /\ exitCode = <<>>
    /\ failure = "none"
    /\ loopEntered = FALSE
    /\ asset = NoAsset
    /\ s = 0 /\ f = 0 /\ v = 0 /\ index_offset = 0
    /\ vertices = <<>> /\ indices = <<>>
    /\ VBO = NoBuffer /\ EBO = NoBuffer
    /\ fontLoaded = FALSE
    /\ windowShouldClose = FALSE
    /\ keys = ks
    /\ glfwTime = 0
    /\ gameState = gs
    /\ modelPosition = [x |-> 0, y |-> 0, z |-> 0]
    /\ rotationY = 0
    /\ loreLoaded = FALSE /\ loreText = <<>>
    /\ charIndex = 0 /\ timeAccumulator = 0 /\ loreElapsed = 0
    /\ uModel = Zero4 /\ uView = NoView
    /\ axesVBO = NoBuffer /\ quadVBO = NoBuffer
    /\ Characters = [c \in {} |-> "rasterized"]
    /\ glCalls = <<>>
    /\ released = [o \in Objects |-> 0]

\* main starts with no key reported as pressed
InitWith(gs) == InitAt("glfwInit", gs, {})

Init == InitWith(InitialGameState)

\* std::cerr << ...; return -1;
ReturnFailure_ReturnsZero(what) ==
    /\ pc' = "done"
    /\ exitCode' = <<0>>
    /\ failure' = what

ReturnFailure(what) ==
    /\ pc' = "done"
    /\ exitCode' = <<-1>>
    /\ failure' = what

\* if (!glfwInit()) return -1;
glfwInit ==
    /\ pc = "glfwInit"
    /\ \E ok \in BOOLEAN :
         IF ok THEN pc' = "createWindow" /\ UNCHANGED <<exitCode, failure>>
               ELSE ReturnFailure("glfwInit")
    /\ UNCHANGED <<loopEntered, meshVars, deviceVars, fontLoaded, windowShouldClose,
                   keys, glfwTime, gameState, transformVars, loreVars, textVars, ownedVars>>

\* window = glfwCreateWindow(...); if (!window) { glfwTerminate(); return -1; }
glfwCreateWindow ==
    /\ pc = "createWindow"
    /\ \E ok \in BOOLEAN :
         IF ok THEN pc' = "glewInit" /\ UNCHANGED <<exitCode, failure>>
               ELSE ReturnFailure("window")
    /\ UNCHANGED <<loopEntered, meshVars, deviceVars, fontLoaded, windowShouldClose,
                   keys, glfwTime, gameState, transformVars, loreVars, textVars, ownedVars>>

\* if (glewInit() != GLEW_OK) return -1;
glewInit ==
    /\ pc = "glewInit"
    /\ \E ok \in BOOLEAN :
         IF ok THEN pc' = "shaders" /\ UNCHANGED <<exitCode, failure>>
               ELSE ReturnFailure("glew")
    /\ UNCHANGED <<loopEntered, meshVars, deviceVars, fontLoaded, windowShouldClose,
                   keys, glfwTime, gameState, transformVars, loreVars, textVars, ownedVars>>

\* glCompileShader / glLinkProgram / checkGLError for the three programs:
\* whether they compile and link or not, the outcome is at most logged, the
\* handles are kept and main goes on
BuildShaders ==
    /\ pc = "shaders"
    /\ \E compiled \in BOOLEAN, linked \in BOOLEAN, glError \in BOOLEAN :
         pc' = "loadObj"
    /\ UNCHANGED <<exitCode, failure, loopEntered, meshVars, deviceVars, fontLoaded,
                   windowShouldClose, keys, glfwTime, gameState, transformVars,
                   loreVars, textVars, ownedVars>>

\* if (!ret) ...
ImportFailed_NeverChecked(ret) == FALSE

ImportFailed(ret) == ~ret

\* ret = tinyobj::LoadObj(&attrib, &shapes, ...); if (!ret) return -1;
LoadObj(assets) ==
    /\ pc = "loadObj"
    /\ \E a \in assets :
         /\ asset' = a
         /\ IF ImportFailed(a.ret)
            THEN ReturnFailure("mesh")
            ELSE pc' = "flatten_s" /\ UNCHANGED <<exitCode, failure>>
    /\ UNCHANGED <<loopEntered, s, f, v, index_offset, vertices, indices, deviceVars,
                   fontLoaded, windowShouldClose, keys, glfwTime, gameState,
                   transformVars, loreVars, textVars, ownedVars>>

\* for (size_t s = 0; s < shapes.size(); s++) { size_t index_offset = 0; ...
FlattenShape ==
    /\ pc = "flatten_s"
    /\ IF s < Len(asset.shapes)
       THEN /\ index_offset' = 0
            /\ f' = 0
            /\ pc' = "flatten_f"
       ELSE /\ pc' = "upload"
            /\ UNCHANGED <<index_offset, f>>
    /\ UNCHANGED <<exitCode, failure, loopEntered, asset, s, v, vertices, indices,
                   deviceVars, fontLoaded, windowShouldClose, keys, glfwTime, gameState,
                   transformVars, loreVars, textVars, ownedVars>>

\* for (size_t f = 0; f < shapes[s].mesh.num_face_vertices.size(); f++) { ...
FlattenFace ==
    /\ pc = "flatten_f"
    /\ IF f < Len(asset.shapes[s + 1].num_face_vertices)
       THEN /\ v' = 0
            /\ pc' = "flatten_v"
            /\ UNCHANGED s
       ELSE /\ s' = s + 1
            /\ pc' = "flatten_s"
            /\ UNCHANGED v
    /\ UNCHANGED <<exitCode, failure, loopEntered, asset, f, index_offset, vertices,
                   indices, deviceVars, fontLoaded, windowShouldClose, keys, glfwTime,
                   gameState, transformVars, loreVars, textVars, ownedVars>>

\* for (size_t v = 0; v < fv; v++) { ...push_back... } index_offset += fv;
FlattenCorner ==
    /\ pc = "flatten_v"
    /\ LET fv == asset.shapes[s + 1].num_face_vertices[f + 1]
       IN  IF v < fv
           THEN LET idx == asset.shapes[s + 1].indices[index_offset + v + 1]
                IN  /\ vertices' = vertices \o CornerRecord(asset.attrib, idx)
                    /\ indices' = Append(indices, NextIndex(indices))
                    /\ v' = v + 1
                    /\ UNCHANGED <<pc, f, index_offset>>
           ELSE /\ index_offset' = index_offset + fv
                /\ f' = f + 1
                /\ pc' = "flatten_f"
                /\ UNCHANGED <<v, vertices, indices>>
    /\ UNCHANGED <<exitCode, failure, loopEntered, asset, s, deviceVars, fontLoaded,
                   windowShouldClose, keys, glfwTime, gameState, transformVars, loreVars, textVars, ownedVars>>

\* glGenBuffers / glBufferData(..., GL_STATIC_DRAW) for the mesh, the axes
\* and the screen quad
UploadBuffers ==
    /\ pc = "upload"
    /\ VBO' = [created |-> TRUE, data |-> vertices]
    /\ EBO' = [created |-> TRUE, data |-> indices]
    /\ axesVBO' = [created |-> TRUE, data |-> <<"axesVertices">>]
    /\ quadVBO' = [created |-> TRUE, data |-> QuadVertices]
    /\ pc' = "freetype"
    /\ UNCHANGED <<exitCode, failure, loopEntered, meshVars, uModel, uView, fontLoaded,
                   windowShouldClose, keys, glfwTime, gameState, transformVars, loreVars,
                   Characters, glCalls, released>>

\* FT_New_Face(...) may fail; the failure is only logged, and the calls that
\* follow use the uninitialized face: the process is killed there or goes on.
FreeTypeSetup ==
    /\ pc = "freetype"
    /\ \E ok \in BOOLEAN, killed \in BOOLEAN :
         /\ fontLoaded' = ok
         /\ IF ~ok /\ killed
            THEN pc' = "crashed" /\ UNCHANGED Characters
            ELSE pc' = "loop" /\ Characters' \in GlyphCaches(ok)
    /\ UNCHANGED <<exitCode, failure, loopEntered, meshVars, deviceVars, windowShouldClose, keys,
                   glfwTime, gameState, transformVars, loreVars, quadVBO, glCalls,
                   ownedVars>>

\* the close flag as the loop condition reads it
glfwWindowShouldClose_NeverSet(flag) == FALSE

glfwWindowShouldClose(flag) == flag

\* while (!glfwWindowShouldClose(window))
LoopTest ==
    /\ pc = "loop"
    /\ IF glfwWindowShouldClose(windowShouldClose)
       THEN pc' = "cleanup" /\ UNCHANGED loopEntered
       ELSE pc' = "input" /\ loopEntered' = TRUE
    /\ UNCHANGED <<exitCode, failure, meshVars, deviceVars, fontLoaded,
                   windowShouldClose, keys, glfwTime, gameState, transformVars, loreVars, textVars, ownedVars>>

\* processInput(window)
processInput ==
    /\ pc = "input"
    /\ windowShouldClose' = (windowShouldClose \/ "ESC" \in keys)
    /\ modelPosition' = processInputMove(modelPosition, keys)
    /\ modelPosition'.x \in -MaxMove..MaxMove
    /\ modelPosition'.z \in -MaxMove..MaxMove
    /\ pc' = "render"
    /\ UNCHANGED <<exitCode, failure, loopEntered, meshVars, deviceVars, fontLoaded,
                   keys, glfwTime, gameState, rotationY, loreVars, textVars, ownedVars>>

\* the body of if (gameState == Lore_Screen)
RenderLore ==
    \E file \in LoreFiles :
        IF ~loreLoaded /\ ~file.open
        THEN /\ windowShouldClose' = TRUE
             /\ pc' = "cleanup"
             /\ glCalls' = <<>>
             /\ UNCHANGED <<glfwTime, loreVars, Characters, quadVBO>>
        ELSE LET text == IF loreLoaded THEN loreText ELSE file.text
                 r    == RevealStep(timeAccumulator + glfwTime, charIndex, Len(text))
                 \* loreText.substr(0, charIndex) stops at the end of the text
                 displayedText == SubSeq(text, 1, Min(r.charIndex, Len(text)))
             IN  /\ Characters' = LookUpAll(Characters, displayedText, Len(displayedText))
                 /\ quadVBO' = IF displayedText = <<>> THEN quadVBO
                               ELSE [quadVBO EXCEPT !.data =
                                        GlyphQuad(displayedText[Len(displayedText)],
                                                  Len(displayedText))]
                 /\ glCalls' = LoreCalls(displayedText)
                 /\ loreLoaded' = TRUE
                 /\ loreText' = text
                 /\ loreElapsed' = loreElapsed + glfwTime
                 /\ glfwTime' = 0
                 /\ charIndex' = r.charIndex
                 /\ timeAccumulator' = r.timeAccumulator
                 /\ pc' = "swap"
                 /\ UNCHANGED windowShouldClose

\* the if / else if chain on gameState in the frame loop
Render ==
    /\ pc = "render"
    /\ IF gameState = "Start_Screen"
       THEN /\ pc' = "swap"
            /\ glCalls' = <<>>
            /\ UNCHANGED <<windowShouldClose, glfwTime, loreVars, uModel, uView,
                           Characters, quadVBO>>
       ELSE IF gameState = "Lore_Screen"
       THEN /\ RenderLore
            /\ UNCHANGED <<uModel, uView>>
       ELSE IF gameState = "Game_Screen"
       THEN /\ uModel' = ModelMatrix(modelPosition, rotationY)
            /\ uView' = ViewArgs(modelPosition)
            /\ glCalls' = GameCalls
            /\ pc' = "swap"
            /\ UNCHANGED <<windowShouldClose, glfwTime, loreVars, Characters, quadVBO>>
       ELSE /\ pc' = "swap"
            /\ glCalls' = <<>>
            /\ UNCHANGED <<windowShouldClose, glfwTime, loreVars, uModel, uView,
                           Characters, quadVBO>>
    /\ UNCHANGED <<exitCode, failure, loopEntered, meshVars, VBO, EBO, fontLoaded, keys,
                   gameState, transformVars, ownedVars>>

\* glfwSwapBuffers(window); glfwPollEvents();
\* The frame takes dt ticks; polling refreshes the key state and may see the
\* user's close request.  Once the close flag is set the loop ends at its next
\* test: the timer and the keys are not read again and are left as they are.
SwapAndPoll(keySets) ==
    /\ pc = "swap"
    /\ IF windowShouldClose
       THEN UNCHANGED <<glfwTime, keys, windowShouldClose>>
       ELSE \E dt \in 1..MaxDt, ks \in keySets, closeRequested \in BOOLEAN :
                /\ loreElapsed + glfwTime + dt <= MaxElapsed
                /\ glfwTime' = glfwTime + dt
                /\ keys' = ks
                /\ windowShouldClose' = closeRequested
    /\ pc' = "loop"
    /\ UNCHANGED <<exitCode, failure, loopEntered, meshVars, deviceVars, fontLoaded,
                   gameState, transformVars, loreVars, textVars, ownedVars>>

\* glDelete...; glfwTerminate(); return 0;
Cleanup ==
    /\ pc = "cleanup"
    /\ pc' = "done"
    /\ exitCode' = <<0>>
    /\ released' = DeleteObjects(released)
    /\ UNCHANGED <<failure, loopEntered, meshVars, deviceVars, fontLoaded,
                   windowShouldClose, keys, glfwTime, gameState, transformVars, loreVars,
                   textVars, axesVBO>>

Startup ==
    \/ glfwInit
    \/ glfwCreateWindow
    \/ glewInit
    \/ BuildShaders

Flatten ==
    \/ FlattenShape
    \/ FlattenFace
    \/ FlattenCorner
    \/ UploadBuffers

FrameLoop(keySets) ==
    \/ processInput
    \/ Render
    \/ SwapAndPoll(keySets)
    \/ Cleanup

Next ==
    Startup \/ LoadObj(MainAssets) \/ Flatten \/ FreeTypeSetup \/ LoopTest
    \/ FrameLoop(KeySets)

Spec == Init /\ [][Next]_vars

\* startup up to the first test of the loop condition, on every asset
NextMesh == Startup \/ LoadObj(AllAssets) \/ Flatten \/ FreeTypeSetup \/ LoopTest

SpecMesh == Init /\ [][NextMesh]_vars

\* the frame loop as it runs once the screen state is Game
InitGame == InitWith("Game_Screen")

SpecGame == InitGame /\ [][Next]_vars

\* the frame loop started on any of the four screens
InitScreens == \E gs \in GameState : InitWith(gs)

SpecScreens == InitScreens /\ [][Next]_vars

\* the keys that leave the model where it is
CloseKeySets == {ks \in KeySets : ks \subseteq {"ESC", "ENTER"}}

\* the program with only those keys pressed
NextClose ==
    Startup \/ LoadObj(MainAssets) \/ Flatten \/ FreeTypeSetup \/ LoopTest
    \/ FrameLoop(CloseKeySets)

\* every step of main returns, so the program goes on while it can
SpecFair == Init /\ [][NextClose]_vars /\ WF_vars(NextClose)

\* handleInput(window) called on any screen with any keys held
InitInput == \E gs \in GameState, ks \in KeySets : InitAt("handleInput", gs, ks)

HandleInputStep ==
    /\ pc = "handleInput"
    /\ gameState' = handleInput(gameState, keys)
    /\ pc' = "handled"
    /\ UNCHANGED <<exitCode, failure, loopEntered, meshVars, deviceVars, fontLoaded,
                   windowShouldClose, keys, glfwTime, transformVars, loreVars,
                   textVars, ownedVars>>

SpecInput == InitInput /\ [][HandleInputStep]_vars

(***************************************************************************)
(* Properties.                                                             *)
(***************************************************************************)
RECURSIVE SumOver(_, _)
SumOver(seq, n) == IF n = 0 THEN 0 ELSE SumOver(seq, n - 1) + seq[n]

\* the corners of the faces of the first n shapes
CornersIn(shapes, n) ==
    SumOver([i \in 1..Len(shapes) |->
                SumOver(shapes[i].num_face_vertices, Len(shapes[i].num_face_vertices))],
            n)

FaceCount(shapes) ==
    SumOver([i \in 1..Len(shapes) |-> Len(shapes[i].num_face_vertices)], Len(shapes))

\* the corners of all shapes, in the order of the asset
RECURSIVE AllCorners(_, _)
AllCorners(shapes, n) ==
    IF n = 0 THEN <<>> ELSE AllCorners(shapes, n - 1) \o shapes[n].indices

\* LoadObj has run
Imported ==
    /\ pc \notin {"glfwInit", "createWindow", "glewInit", "shaders", "loadObj"}
    /\ failure \notin {"glfwInit", "window", "glew"}

\* the vertex data preparation has run to its end
Flattened == Imported /\ failure = "none" /\ pc \notin {"flatten_s", "flatten_f", "flatten_v"}

\* the face corners the vertex data preparation has gone through so far
CornersDone ==
    CASE ~Imported \/ failure # "none" -> 0
      [] pc = "flatten_s" -> CornersIn(asset.shapes, s)
      [] pc = "flatten_f" -> CornersIn(asset.shapes, s) + index_offset
      [] pc = "flatten_v" -> CornersIn(asset.shapes, s) + index_offset + v
      [] OTHER            -> CornersIn(asset.shapes, Len(asset.shapes))

Held(k) == IF k \in keys THEN movementSpeed ELSE 0

\* C1: in a run that starts in Start or Lore, a frame in which Enter is
\* pressed ends with the screen state Game, and once the screen state is Game
\* it stays Game.
C1_EnterMovesToGame ==
    [][ /\ (pc' = "swap" /\ "ENTER" \in keys') => gameState' = "Game_Screen"
        /\ gameState = "Game_Screen" => gameState' = "Game_Screen" ]_vars

\* C2: at every point of the vertex data preparation there is one 6-float
\* record and one index per face corner gone through, the k-th index is k
\* (counted from 0) and is smaller than the number of records; at the end an
\* asset of F triangulated faces has given 3F records and the indices 0..3F-1.
C2_OneRecordAndIndexPerCorner ==
    /\ Len(indices) = CornersDone
    /\ Len(vertices) = 6 * Len(indices)
    /\ \A k \in 1..Len(indices) :
         /\ indices[k] = k - 1
         /\ indices[k] < Len(vertices) \div 6
    /\ Flattened =>
         /\ Len(indices) = 3 * FaceCount(asset.shapes)
         /\ Len(vertices) = 6 * (3 * FaceCount(asset.shapes))

C2_Witness ==
    /\ pc = "upload"
    /\ Len(asset.shapes) >= 2
    /\ \A i \in 1..Len(asset.shapes) : Len(asset.shapes[i].num_face_vertices) >= 1
    /\ Len(indices) >= 6

\* C3: the record emitted for a face corner carries the source position the
\* corner refers to, and the normal (0,0,0) if the corner's normal index is
\* negative, the source normal it refers to otherwise.
C3_PositionAndNormalOfCorner ==
    \A k \in 1..Len(indices) :
        LET idx == AllCorners(asset.shapes, Len(asset.shapes))[k]
            rec == SubSeq(vertices, 6 * (k - 1) + 1, 6 * k)
            pos == SubSeq(asset.attrib.vertices,
                          3 * idx.vertex_index + 1, 3 * idx.vertex_index + 3)
        IN  /\ SubSeq(rec, 1, 3) = pos
            /\ idx.normal_index < 0 => SubSeq(rec, 4, 6) = <<0, 0, 0>>
            /\ idx.normal_index >= 0 =>
                 SubSeq(rec, 4, 6) = SubSeq(asset.attrib.normals,
                                            3 * idx.normal_index + 1,
                                            3 * idx.normal_index + 3)

C3_Witness ==
    /\ pc = "upload"
    /\ Len(indices) >= 3
    /\ \E j, k \in 1..Len(indices) :
         LET all == AllCorners(asset.shapes, Len(asset.shapes))
         IN  all[j].normal_index < 0 /\ all[k].normal_index = 0

\* C4: once the lore text is loaded, the number of revealed characters is
\* min(L, floor(t / D)), t being the timer time the Lore screen has consumed.
C4_RevealedIsFloorOfElapsed ==
    loreLoaded =>
        charIndex = Min(Len(loreText), loreElapsed \div charDisplayInterval)

\* C5: the number of revealed characters never decreases from one step to
\* the next and never exceeds the length of the loaded lore text.
C5_RevealMonotoneAndBounded ==
    [][charIndex' >= charIndex /\ charIndex' <= Len(loreText')]_vars

C5_Witness ==
    /\ pc = "swap"
    /\ loreLoaded
    /\ Len(loreText) >= 1
    /\ charIndex = Len(loreText)
    /\ timeAccumulator >= charDisplayInterval

\* C6: main returns 0 exactly when it left the frame loop with the close flag
\* set, and -1 exactly when glfwInit, the window creation, glewInit or the
\* mesh import failed; a run that returns -1 never entered the frame loop,
\* and a failed startup check ends the run at once.
C6_ExitCodes ==
    /\ exitCode = <<0>> <=> (pc = "done" /\ loopEntered /\ windowShouldClose)
    /\ exitCode = <<-1>> <=> failure \in {"glfwInit", "window", "glew", "mesh"}
    /\ exitCode = <<-1>> => (pc = "done" /\ ~loopEntered)
    /\ exitCode \in {<<>>, <<0>>, <<-1>>}

C6_Witness ==
    /\ pc = "done"
    /\ exitCode = <<0>>
    /\ ~loreLoaded
    /\ loopEntered

\* C7 as stated: after an import that failed or gave no faces, no buffer is
\* uploaded, the frame loop is not entered and main returns a failure code.
C7_FailedOrEmptyImportAborts ==
    (Imported /\ (~asset.ret \/ FaceCount(asset.shapes) = 0)) =>
        /\ ~VBO.created /\ ~EBO.created
        /\ ~loopEntered
        /\ pc = "done" /\ exitCode = <<-1>>

\* C7 as amended: after an import that LoadObj reports as failed, no buffer
\* is uploaded, the frame loop is not entered and main returns -1.
C7_FailedImportAborts ==
    (Imported /\ ~asset.ret) =>
        /\ ~VBO.created /\ ~EBO.created
        /\ ~loopEntered
        /\ pc = "done" /\ exitCode = <<-1>>

C7_Witness ==
    /\ Imported
    /\ ~asset.ret
    /\ FaceCount(asset.shapes) >= 1
    /\ pc = "done"

\* C8: in every frame, whatever the screen, processInput moves x by one
\* increment down for UP and up for DOWN, z by one increment up for LEFT and
\* down for RIGHT (opposing keys cancel, no arrow key leaves the Transform
\* State as it is), and no other step changes the Transform State.
C8_ArrowKeysMoveByOneIncrement ==
    [][ /\ pc = "input" =>
             /\ modelPosition' = [x |-> modelPosition.x - Held("UP") + Held("DOWN"),
                                  y |-> modelPosition.y,
                                  z |-> modelPosition.z + Held("LEFT") - Held("RIGHT")]
             /\ rotationY' = rotationY
        /\ pc # "input" => UNCHANGED <<modelPosition, rotationY>> ]_vars

C8_Witness ==
    /\ pc = "render"
    /\ keys = {"DOWN", "LEFT"}
    /\ modelPosition = [x |-> movementSpeed, y |-> 0, z |-> movementSpeed]

C10_EndNeverEntered == gameState # "End_screen"

C10_Witness ==
    /\ pc = "swap"
    /\ "ENTER" \in keys
    /\ loreLoaded
    /\ charIndex >= 1

\* the positions of main inside the frame loop
InLoop == pc \in {"loop", "input", "render", "swap"}

IsDraw(call) == call.fn \in {"glDrawArrays", "glDrawElements"}

\* the calls of one kind among the first n calls of a frame
CallsBefore(calls, n, fn) == {j \in 1..(n - 1) : calls[j].fn = fn}

Max(S) == CHOOSE m \in S : \A k \in S : k <= m

\* the number of writes to a buffer among the calls of a frame
WritesTo(calls, buffer) ==
    Cardinality({j \in 1..Len(calls) :
                    calls[j].fn = "glBufferSubData" /\ calls[j].arg = buffer})

\* C11: a call of the confirm-key handler changes the screen state only when
\* Enter is pressed on the Start or the Lore screen; on the Game and End
\* screens, and whenever Enter is not pressed, it leaves the state as it is.
C11_ConfirmOnlyOutOfStartOrLore ==
    [][pc = "handleInput" /\ pc' = "handled" =>
          /\ gameState' # gameState =>
                "ENTER" \in keys /\ gameState \in {"Start_Screen", "Lore_Screen"}
          /\ gameState \in {"Game_Screen", "End_screen"} => gameState' = gameState
          /\ "ENTER" \notin keys => gameState' = gameState]_vars

\* C12: once the frame loop runs, no step changes the glyph cache, not even a
\* frame that draws a character whose glyph was never rasterized.
C12_GlyphCacheImmutable ==
    [][InLoop => Characters' = Characters]_vars

\* C13 as stated: the mesh vertex and index buffers, the axes buffer and the
\* screen-quad buffer hold the data of their creation for the whole frame
\* loop; no frame writes to any of them.
C13_NoFrameWritesBuffers ==
    [][InLoop =>
          /\ VBO' = VBO /\ EBO' = EBO /\ axesVBO' = axesVBO /\ quadVBO' = quadVBO
          /\ WritesTo(glCalls', "quadVBO") = 0]_vars

\* C13 amended: no frame writes to the mesh vertex and index buffers or to the
\* axes buffer; the screen-quad buffer is written by the frames of the Lore
\* screen only, once for every character they display, and by no other step.
C13_OnlyLoreFramesWriteQuadBuffer ==
    [][InLoop =>
          /\ VBO' = VBO /\ EBO' = EBO /\ axesVBO' = axesVBO
          /\ \A b \in {"VBO", "EBO", "axesVBO"} : WritesTo(glCalls', b) = 0
          /\ IF pc = "render" /\ pc' = "swap" /\ gameState = "Lore_Screen"
             THEN /\ WritesTo(glCalls', "quadVBO") = charIndex'
                  /\ charIndex' = 0 => quadVBO' = quadVBO
             ELSE /\ quadVBO' = quadVBO
                  /\ pc = "render" => WritesTo(glCalls', "quadVBO") = 0]_vars

C13_Witness ==
    /\ pc = "swap"
    /\ gameState = "Lore_Screen"
    /\ charIndex = 2
    /\ WritesTo(glCalls, "quadVBO") = 2
    /\ quadVBO.data = GlyphQuad("a", 2)
    /\ VBO.data = vertices /\ EBO.data = indices

\* C14: every draw call of a frame comes after a glUseProgram of that same
\* frame, and the vertex array bound last before it in that same frame is one
\* of the program's vertex arrays, not the zero binding.
C14_DrawsUseBindingsOfTheirFrame ==
    \A i \in 1..Len(glCalls) :
        IsDraw(glCalls[i]) =>
            /\ CallsBefore(glCalls, i, "glUseProgram") # {}
            /\ CallsBefore(glCalls, i, "glBindVertexArray") # {}
            /\ glCalls[Max(CallsBefore(glCalls, i, "glBindVertexArray"))].arg # "0"

C14_Witness ==
    /\ pc = "swap"
    /\ gameState = "Game_Screen"
    /\ \E i \in 1..Len(glCalls) : glCalls[i].fn = "glDrawElements"

\* C15: while main is inside the frame loop, or has left it and not yet torn
\* down, nothing has been released; once main has returned after the loop,
\* each object that teardown deletes has been deleted exactly once, and no
\* object more than once -- whether the loop ended by its condition or by the
\* break of the Lore screen, and on whichever screen.
C15_TeardownOnceAfterLoop ==
    /\ InLoop \/ pc = "cleanup" => \A o \in Objects : released[o] = 0
    /\ pc = "done" /\ loopEntered =>
          /\ exitCode = <<0>>
          /\ \A o \in {"VAO", "VBO", "EBO", "axesVAO", "axesVBO"} : released[o] = 1
    /\ \A o \in Objects : released[o] <= 1

\* teardown after the break of the Lore screen
C15_Witness ==
    /\ pc = "done"
    /\ gameState = "Lore_Screen"
    /\ ~loreLoaded
    /\ windowShouldClose
    /\ released["VAO"] = 1

\* C16: once the window, the loader and the mesh are there, no outcome of the
\* shader builds, of the FreeType setup, of the font load or of the glyph
\* loads stops main: it reaches the frame loop, and it returns 0 when it ends.
C16_SoftErrorsNeverAbort ==
    /\ VBO.created => pc # "crashed"
    /\ VBO.created /\ pc = "done" => exitCode = <<0>>

\* C17: a frame of the Lore screen adds the timer to the accumulator; it
\* reveals one more character exactly when the sum has reached the interval
\* and a character is left, never more than one; it sets the accumulator to
\* zero when it reveals, and keeps the sum otherwise.
C17_RevealStepPerFrame ==
    [][pc = "render" /\ pc' = "swap" /\ gameState = "Lore_Screen" =>
          LET sum    == timeAccumulator + glfwTime
              reveal == sum >= charDisplayInterval /\ charIndex < Len(loreText')
          IN  /\ charIndex' = IF reveal THEN charIndex + 1 ELSE charIndex
              /\ timeAccumulator' = IF reveal THEN 0 ELSE sum]_vars

\* a frame that revealed the first of two characters
C17_Witness ==
    /\ pc = "swap"
    /\ gameState = "Lore_Screen"
    /\ Len(loreText) = 2
    /\ charIndex = 1
    /\ timeAccumulator = 0
    /\ loreElapsed >= charDisplayInterval

\* C18: a frame whose processInput saw Escape is still rendered and
\* presented; the loop test that follows a set close flag leaves the loop, so
\* no further frame begins; from there main reaches teardown and returns; and
\* the loop is left only by its test with the close flag set or by the Lore
\* screen failing to open its file.
C18_EscapeEndsAfterThisFrame ==
    /\ [][pc = "render" /\ windowShouldClose => pc' = "swap"]_vars
    /\ [][pc = "loop" /\ windowShouldClose => pc' = "cleanup"]_vars
    /\ [][InLoop /\ ~InLoop' =>
             \/ pc = "loop" /\ windowShouldClose /\ pc' = "cleanup"
             \/ pc = "render" /\ gameState = "Lore_Screen" /\ ~loreLoaded
                /\ pc' = "cleanup"]_vars
    /\ (pc = "render" /\ windowShouldClose) ~> (pc = "done" /\ exitCode = <<0>>)

\* the frame in which Escape was seen, rendered and about to be presented
C18_Witness ==
    /\ pc = "swap"
    /\ "ESC" \in keys
    /\ windowShouldClose

\* C19: the yaw angle and the y component of the translation are zero in
\* every state; the arrow keys move x and z only.
C19_YawAndHeightStayZero ==
    /\ rotationY = 0
    /\ modelPosition.y = 0

C19_Witness ==
    /\ modelPosition.x # 0
    /\ modelPosition.z # 0
    /\ pc = "render"

\* C20: when main has returned after the frame loop, every vertex array and
\* buffer created at startup -- of the mesh, of the axes and of the screen
\* quad -- has been released exactly once.
C20_EveryObjectReleasedOnce ==
    pc = "done" /\ loopEntered => \A o \in Objects : released[o] = 1

====
